---- MODULE Spec2Model ----
(***************************************************************************)
(* A model of the front-end glue of ReactiveTraderCloud:                   *)
(*   - the limit-checker frame's window controls (OpenFin window API),     *)
(*   - the FX trades table's row click (FDC3 context broadcast),           *)
(*   - the bundler configuration (setConfig and its resolveId plugins),    *)
(*   - the credit RFQ end-to-end flow the Playwright test drives.          *)
(* Each part has its own specification over the shared variables.          *)
(***************************************************************************)
EXTENDS Integers, Sequences, FiniteSets, TLC

VARIABLES
    \* limit-checker frame (LimitCheckerWindowFrame.tsx)
    winState,      \* the host window's state
    win0,          \* the window's state when the frame was mounted
    apiCalls,      \* the window API calls issued so far, in order
    handlers,      \* one record per control activation
    \* FX trades table (FxTrades)
    fdc3,          \* whether window.fdc3 is present
    rows,          \* the trades the grid shows
    clicks,        \* one record per row click
    broadcasts,    \* the contexts handed to the interop bridge, in order
    \* bundler configuration (setConfig)
    processEnv,    \* process.env
    mode,          \* ConfigEnv.mode
    config,        \* what setConfig returned
    \* resolveId plugins
    dev,           \* targetBuildPlugin's dev argument
    target,        \* the plugins' target argument
    files,         \* the files on disk
    resolved,      \* the last resolveId call and what it returned
    \* credit RFQ flow
    project,       \* the test project: one page or three windows
    rfqs,          \* the RFQ service's RFQs
    inFlight,      \* trade messages pushed by the service, not yet received
    views,         \* what each page shows
    testPc,        \* the end-to-end test's position
    testVals       \* the end-to-end test's local values

windowVars == <<winState, win0, apiCalls, handlers>>
tradesVars == <<fdc3, rows, clicks, broadcasts>>
configVars == <<processEnv, mode, config>>
resolveVars == <<dev, target, files, resolved>>
rfqVars == <<project, rfqs, inFlight, views, testPc, testVals>>
vars == <<windowVars, tradesVars, configVars, resolveVars, rfqVars>>

----------------------------------------------------------------------------
(* JavaScript strings: String.prototype methods as the code uses them.     *)

Min(S) == CHOOSE x \in S : \A y \in S : x <= y
Max(S) == CHOOSE x \in S : \A y \in S : x >= y

CharAt(s, i) == SubSeq(s, i, i)

\* The 1-based index of sub's first occurrence in s, 0 when there is none.
IndexOf(s, sub) ==
    LET at == {i \in 1..(Len(s) - Len(sub) + 1) : SubSeq(s, i, i + Len(sub) - 1) = sub}
    IN  IF at = {} THEN 0 ELSE Min(at)

LastIndexOf(s, sub) ==
    LET at == {i \in 1..(Len(s) - Len(sub) + 1) : SubSeq(s, i, i + Len(sub) - 1) = sub}
    IN  IF at = {} THEN 0 ELSE Max(at)

Includes(s, sub) == IndexOf(s, sub) # 0
StartsWith(s, sub) == Len(sub) <= Len(s) /\ SubSeq(s, 1, Len(sub)) = sub
EndsWith(s, sub) == Len(sub) <= Len(s) /\ SubSeq(s, Len(s) - Len(sub) + 1, Len(s)) = sub

RECURSIVE Split(_, _)
Split(s, sep) ==
    LET i == IndexOf(s, sep)
    IN  IF i = 0 THEN <<s>>
        ELSE <<SubSeq(s, 1, i - 1)>> \o Split(SubSeq(s, i + Len(sep), Len(s)), sep)

RECURSIVE Join(_, _)
Join(parts, sep) ==
    IF parts = <<>> THEN ""
    ELSE IF Len(parts) = 1 THEN parts[1]
    ELSE parts[1] \o sep \o Join(Tail(parts), sep)

\* s.replace(/from/g, to) for a literal pattern
ReplaceAll(s, from, to) == Join(Split(s, from), to)

UpperChars == "ABCDEFGHIJKLMNOPQRSTUVWXYZ"
LowerChars == "abcdefghijklmnopqrstuvwxyz"

LowerChar(c) ==
    LET i == IndexOf(UpperChars, c) IN IF i = 0 THEN c ELSE CharAt(LowerChars, i)

RECURSIVE ToLowerCase(_)
ToLowerCase(s) ==
    IF s = "" THEN "" ELSE LowerChar(CharAt(s, 1)) \o ToLowerCase(SubSeq(s, 2, Len(s)))

\* What an out-of-range index of an array gives, as a template renders it.
UNDEFINED == "undefined"

----------------------------------------------------------------------------
(* node:path (posix), for paths without a trailing slash.                  *)

ParseDir(p) ==
    LET i == LastIndexOf(p, "/")
    IN  IF i = 0 THEN "" ELSE IF i = 1 THEN "/" ELSE SubSeq(p, 1, i - 1)

ParseBase(p) == SubSeq(p, LastIndexOf(p, "/") + 1, Len(p))

ParseExt(p) ==
    LET base == ParseBase(p)
        j == LastIndexOf(base, ".")
    IN  IF j <= 1 \/ base = ".." THEN "" ELSE SubSeq(base, j, Len(base))

ParseName(p) ==
    LET base == ParseBase(p)
    IN  SubSeq(base, 1, Len(base) - Len(ParseExt(p)))

PathParse(p) == [dir |-> ParseDir(p), base |-> ParseBase(p),
                 ext |-> ParseExt(p), name |-> ParseName(p)]

IsAbsolute(p) == StartsWith(p, "/")

\* The segments of a path with "", "." and resolvable ".." removed.
RECURSIVE NormalizeSegments(_, _, _)
NormalizeSegments(segs, acc, abs) ==
    IF segs = <<>> THEN acc
    ELSE LET s == Head(segs)
             rest == Tail(segs)
         IN  IF s = "" \/ s = "." THEN NormalizeSegments(rest, acc, abs)
             ELSE IF s = ".."
             THEN IF acc # <<>> /\ acc[Len(acc)] # ".."
                  THEN NormalizeSegments(rest, SubSeq(acc, 1, Len(acc) - 1), abs)
                  ELSE IF abs THEN NormalizeSegments(rest, acc, abs)
                  ELSE NormalizeSegments(rest, Append(acc, ".."), abs)
             ELSE NormalizeSegments(rest, Append(acc, s), abs)

PathNormalize(p) ==
    LET abs == IsAbsolute(p)
        body == Join(NormalizeSegments(Split(p, "/"), <<>>, abs), "/")
    IN  IF abs THEN "/" \o body ELSE IF body = "" THEN "." ELSE body

\* path.join: the non-empty parts joined by "/" and normalized.
PathJoin(parts) ==
    LET kept == SelectSeq(parts, LAMBDA x : x # "")
    IN  IF kept = <<>> THEN "." ELSE PathNormalize(Join(kept, "/"))

----------------------------------------------------------------------------
(* Optional strings: an environment variable, an importer.                 *)

Unset == [set |-> FALSE, val |-> ""]
Str(v) == [set |-> TRUE, val |-> v]
\* JavaScript truthiness of string | undefined
Truthy(o) == o.set /\ o.val # ""
\* o || dflt
OrElse(o, dflt) == IF Truthy(o) THEN o.val ELSE dflt

----------------------------------------------------------------------------
(* The file system the resolveId hooks read.                               *)

\* process.cwd() of the bundler: the client package
Cwd == "/client"

Dirs == {"/", "/client", "/client/src", "/client/src/a", "/lib"}

\* The sources every target shares; they are always on disk.
BaseFiles == {"/client/src/main.tsx", "/client/src/a/x.ts", "/client/src/a/x.b.ts",
              "/client/src/a/y.tsx"}

\* The per-target variants that may or may not be on disk.
VariantFiles == {"/client/src/a/x.web.ts", "/client/src/a/x.web.tsx",
                 "/client/src/a/x.openfin.ts", "/client/src/a/x.b.web.ts",
                 "/client/src/a/x.OpenFin.ts",
                 "/client/src/main.web.ts", "/client/src/main.openfin.ts",
                 "/lib/x.web.ts"}

\* At most this many variants are on disk at once.
MaxFiles == 2

Targets == {"web", "openfin", "OpenFin"}

Sources == {"/src/a/x.ts", "/src/a/x.tsx", "/src/a/x.b.ts", "./x.ts", "/src/a/x.css",
            "/src/a/x", "./x", "./main", "./main.tsx"}

Importers == {Unset, Str("/client/src/a/y.tsx"), Str("\\client\\src\\a\\y.tsx"),
              Str("/client/src/index.ts"), Str("/lib/y.ts")}

OnDisk(fs) == fs \cup BaseFiles \cup Dirs

\* path.resolve of one path against the working directory
PathResolve(p) ==
    IF IsAbsolute(p) THEN PathNormalize(p) ELSE PathNormalize(Cwd \o "/" \o p)

\* statSync(p) returns (TRUE) or throws ENOENT (FALSE)
StatSync(p, fs) == PathResolve(p) \in OnDisk(fs)

\* readdirSync(d): the names in directory d; throws when d is no directory
ReaddirThrows(d, fs) == PathResolve(d) \notin Dirs
ReaddirSync(d, fs) ==
    {ParseBase(f) : f \in {g \in OnDisk(fs) : g # "/" /\ ParseDir(g) = PathResolve(d)}}

Null == [kind |-> "null", id |-> ""]
Id(p) == [kind |-> "id", id |-> p]
Throws == [kind |-> "throw", id |-> ""]

\* this.resolve(id, importer): the bundler's own resolution of the variant's id
ThisResolve(id, importer) == Id(id)

----------------------------------------------------------------------------
(* targetBuildPlugin(dev, target).resolveId                                *)

\* source.split(".")[1]
DevExtension(source) ==
    LET parts == Split(source, ".")
    IN  IF Len(parts) >= 2 THEN parts[2] ELSE UNDEFINED

DevResolveId(source, importer, tgt, fs) ==
    LET extension == DevExtension(source)
        file == PathParse(source)
        variant == file.name \o "." \o tgt \o "." \o extension
        mockPath == file.dir \o "/" \o variant
    IN  IF extension # "ts" /\ extension # "tsx"
        THEN [result |-> Null, fsCalls |-> <<>>]
        ELSE IF ReaddirThrows("." \o file.dir, fs)
        THEN [result |-> Throws, fsCalls |-> <<"." \o file.dir>>]
        ELSE IF variant \notin ReaddirSync("." \o file.dir, fs)
        THEN [result |-> Null, fsCalls |-> <<"." \o file.dir>>]
        ELSE [result |-> ThisResolve(mockPath, importer), fsCalls |-> <<"." \o file.dir>>]

rootPrefix == "client/src/"

\* (importer || "").replace(/\\/g, "/")
ThisImporter(importer) == ReplaceAll(OrElse(importer, ""), "\\", "/")

CandidatePath(source, importer, tgt) ==
    LET importedFile == PathParse(source)
        importerFile == PathParse(ThisImporter(importer))
    IN  PathJoin(<<
            IF StartsWith(importedFile.dir, "/src") /\ Includes(importerFile.dir, rootPrefix)
            THEN Split(importerFile.dir, rootPrefix)[1] \o "/client"
            ELSE importerFile.dir,
            importedFile.dir,
            importedFile.name \o "." \o ToLowerCase(tgt) >>)

\* The extensions tried in the other order
ExtensionsSwapped == <<"tsx", "ts">>
extensions == <<"ts", "tsx">>

\* The for loop over extensions, from index i: the candidate it ends with and
\* the paths it has handed to statSync.
RECURSIVE TryExtensions(_, _, _, _)
TryExtensions(candidatePath, i, statted, fs) ==
    IF i > Len(extensions) THEN [result |-> Null, fsCalls |-> statted]
    ELSE LET candidate == candidatePath \o "." \o extensions[i]
         IN  IF StatSync(candidate, fs)
             THEN [result |-> Id(candidate), fsCalls |-> Append(statted, candidate)]
             ELSE TryExtensions(candidatePath, i + 1, Append(statted, candidate), fs)

BuildResolveId(source, importer, tgt, fs) ==
    IF \/ ~Truthy(importer)
       \/ ~Includes(ThisImporter(importer), rootPrefix)
       \/ source = "./main"
    THEN [result |-> Null, fsCalls |-> <<>>]
    ELSE TryExtensions(CandidatePath(source, importer, tgt), 1, <<>>, fs)

targetBuildPlugin(isDev, tgt, source, importer, fs) ==
    IF isDev THEN DevResolveId(source, importer, tgt, fs)
    ELSE BuildResolveId(source, importer, tgt, fs)

----------------------------------------------------------------------------
(* indexSwitchPlugin(target).resolveId                                     *)

IndexCandidate(source, importer, tgt) ==
    PathJoin(<<PathParse(importer.val).dir, PathParse(source).dir,
               PathParse(source).name \o "." \o ToLowerCase(tgt) \o ".ts">>)

\* The same hook with statSync outside try/catch
indexSwitchUncaught(tgt, source, importer, fs) ==
    IF ~StartsWith(source, "./main") \/ ~Truthy(importer)
    THEN [result |-> Null, fsCalls |-> <<>>]
    ELSE LET candidate == IndexCandidate(source, importer, tgt)
         IN  [result |-> IF StatSync(candidate, fs) THEN Id(candidate) ELSE Throws,
              fsCalls |-> <<candidate>>]

indexSwitchPlugin(tgt, source, importer, fs) ==
    IF ~StartsWith(source, "./main") \/ ~Truthy(importer)
    THEN [result |-> Null, fsCalls |-> <<>>]
    ELSE LET candidate == IndexCandidate(source, importer, tgt)
         IN  [result |-> IF StatSync(candidate, fs) THEN Id(candidate) ELSE Null,
              fsCalls |-> <<candidate>>]

----------------------------------------------------------------------------
(* The resolveId hooks as the bundler calls them.                          *)

\* An import the bundler resolves: the hooks run in the plugins' order
\* until one returns an id (resolveId is a "first" hook).
Import(source, importer) ==
    [source |-> source, importer |-> importer, stage |-> "targetBuildPlugin",
     plugin |-> "none", result |-> Null, fsCalls |-> <<>>]

IdleResolve ==
    dev = FALSE /\ target = "web" /\ files = {} /\ resolved = Import("", Unset)

InitResolve ==
    /\ dev \in BOOLEAN
    /\ target \in Targets
    /\ files \in {fs \in SUBSET VariantFiles : Cardinality(fs) <= MaxFiles}
    /\ resolved \in {Import(source, importer) : source \in Sources, importer \in Importers}

TargetBuildResolveId ==
    /\ resolved.stage = "targetBuildPlugin"
    /\ LET r == targetBuildPlugin(dev, target, resolved.source, resolved.importer, files)
       IN  resolved' = [resolved EXCEPT
                          !.plugin = "targetBuildPlugin",
                          !.result = r.result,
                          !.fsCalls = r.fsCalls,
                          !.stage = IF r.result = Null THEN "indexSwitchPlugin" ELSE "done"]
    /\ UNCHANGED <<dev, target, files>>

IndexSwitchResolveId ==
    /\ resolved.stage = "indexSwitchPlugin"
    /\ LET r == indexSwitchPlugin(target, resolved.source, resolved.importer, files)
       IN  resolved' = [resolved EXCEPT
                          !.plugin = "indexSwitchPlugin",
                          !.result = r.result,
                          !.fsCalls = r.fsCalls,
                          !.stage = "done"]
    /\ UNCHANGED <<dev, target, files>>

----------------------------------------------------------------------------
(* LimitCheckerWindowFrame: the header's window controls.                  *)

\* How many times the controls are activated in one run.
MaxActivations == 3

\* fin.Window: what each call does to the window's state
WinApply(call, state) ==
    IF state = "closed" THEN "closed"
    ELSE CASE call = "close" -> "closed"
           [] call = "minimize" -> "minimized"
           [] call = "maximize" -> "maximized"
           [] call = "restore" -> "normal"
           [] OTHER -> state

\* A follow-up that ignores the queried state
MaximizeAlways(state) == "maximize"

\* state === "maximized" ? win.restore() : win.maximize()
MaximizeFollowUp(state) == IF state = "maximized" THEN "restore" ELSE "maximize"

IdleWindow == winState = "normal" /\ win0 = "normal" /\ apiCalls = <<>> /\ handlers = <<>>

InitWindow ==
    /\ winState \in {"normal", "maximized"}
    /\ win0 = winState
    /\ apiCalls = <<>>
    /\ handlers = <<>>

CanActivate == winState # "closed" /\ Len(handlers) < MaxActivations

\* close: () => win.close()
close ==
    /\ CanActivate
    /\ handlers' = Append(handlers, [control |-> "close", pc |-> "done",
                                     seen |-> "", issued |-> <<"close">>])
    /\ apiCalls' = Append(apiCalls, "close")
    /\ winState' = WinApply("close", winState)
    /\ UNCHANGED win0

\* minimize: () => win.minimize()
minimize ==
    /\ CanActivate
    /\ handlers' = Append(handlers, [control |-> "minimize", pc |-> "done",
                                     seen |-> "", issued |-> <<"minimize">>])
    /\ apiCalls' = Append(apiCalls, "minimize")
    /\ winState' = WinApply("minimize", winState)
    /\ UNCHANGED win0

\* maximize: () => win.getState()...: the query is sent, the handler returns
maximize ==
    /\ CanActivate
    /\ handlers' = Append(handlers, [control |-> "maximize", pc |-> "query",
                                     seen |-> "", issued |-> <<"getState">>])
    /\ apiCalls' = Append(apiCalls, "getState")
    /\ UNCHANGED <<winState, win0>>

\* The container answers handler i's query with the state the window is in
\* now; the promise of a closed window rejects and .then never runs.
GetStateSettles(i) ==
    /\ handlers[i].pc = "query"
    /\ handlers' = [handlers EXCEPT ![i] =
                      IF winState = "closed" THEN [@ EXCEPT !.pc = "rejected"]
                      ELSE [@ EXCEPT !.pc = "then", !.seen = winState]]
    /\ UNCHANGED <<winState, win0, apiCalls>>

\* .then((state) => ...) of handler i runs
MaximizeThen(i) ==
    /\ handlers[i].pc = "then"
    /\ LET call == MaximizeFollowUp(handlers[i].seen)
       IN  /\ handlers' = [handlers EXCEPT ![i] =
                             [@ EXCEPT !.pc = "done", !.issued = Append(@, call)]]
           /\ apiCalls' = Append(apiCalls, call)
           /\ winState' = WinApply(call, winState)
    /\ UNCHANGED win0

----------------------------------------------------------------------------
(* FxTrades: the trades grid and its row click.                            *)

\* How many trades the stream carries and how many rows are clicked in one run.
MaxTrades == 2
MaxClicks == 2

Symbols == {"EURUSD", "GBPJPY"}
Statuses == {"Done", "Rejected"}

\* The callback without the window.fdc3 test
BroadcastUnguarded(trade, present) ==
    <<[type |-> "fdc3.instrument", id |-> [ticker |-> trade.symbol]]>>

\* tryBroadcastContext: the contexts it hands to broadcast()
tryBroadcastContext(trade, present) ==
    LET context == [type |-> "fdc3.instrument", id |-> [ticker |-> trade.symbol]]
    IN  IF present THEN <<context>> ELSE <<>>

isRejected(row) == row.status = "Rejected"

IdleTrades == fdc3 = FALSE /\ rows = {} /\ clicks = <<>> /\ broadcasts = <<>>

InitTrades ==
    /\ fdc3 \in BOOLEAN
    /\ rows = {}
    /\ clicks = <<>>
    /\ broadcasts = <<>>

\* trades$ emits: the grid shows the trade, replacing its earlier version
TradeEmitted(trade) ==
    /\ rows' = {r \in rows : r.tradeId # trade.tradeId} \cup {trade}
    /\ rows' # rows
    /\ UNCHANGED <<fdc3, clicks, broadcasts>>

\* The desktop container installs window.fdc3 after the page has loaded
Fdc3Ready ==
    /\ ~fdc3
    /\ fdc3' = TRUE
    /\ UNCHANGED <<rows, clicks, broadcasts>>

\* onRowClick={tryBroadcastContext}; broadcast() without a bridge is an error
RowClick(trade) ==
    /\ trade \in rows
    /\ Len(clicks) < MaxClicks
    /\ LET sent == tryBroadcastContext(trade, fdc3)
       IN  /\ clicks' = Append(clicks, [trade |-> trade, present |-> fdc3, sent |-> sent,
                                        error |-> sent # <<>> /\ ~fdc3])
           /\ broadcasts' = IF fdc3 THEN broadcasts \o sent ELSE broadcasts
    /\ UNCHANGED <<fdc3, rows>>

----------------------------------------------------------------------------
(* setConfig: the bundler configuration.  processEnv is process.env after  *)
(* loadEnv has been merged into it; PORT, DOMAIN and URL_PATH are unset.   *)

TargetValues == {Unset, Str(""), Str("web"), Str("openfin"), Str("finsemble")}
MocksValues == {Unset, Str(""), Str("true")}
HydraValues == {Unset, Str(""), Str("ws://localhost:55000")}
StorybookValues == {Unset, Str("true"), Str("false")}
EnvironmentValues == {Unset, Str("prod")}
Modes == {"development", "production"}

\* Number(process.env.PORT) || 1917 with PORT unset, as a template renders it
localPort == "1917"

\* `${process.env.DOMAIN || ""}${process.env.URL_PATH || ""}` || "" with both unset
DeployedBaseUrl == ""

getBaseUrl(isDev) ==
    IF isDev THEN "http://localhost:" \o localPort ELSE DeployedBaseUrl

\* process.env.TARGET || "web"
BuildTarget(env) == OrElse(env.TARGET, "web")

OpenfinAssets ==
    <<[src |-> "public-openfin/*.json", dest |-> "config", rename |-> "", transform |-> TRUE],
      [src |-> "public-openfin/rt-fx.json", dest |-> "config", rename |-> "app.json",
       transform |-> TRUE],
      [src |-> "public-openfin/plugin/*", dest |-> "plugin", rename |-> "",
       transform |-> FALSE]>>

PwaAssets ==
    <<[src |-> "public-pwa/manifest.json", dest |-> "", rename |-> "", transform |-> TRUE],
      [src |-> "public-pwa/splashscreens/*", dest |-> "splashscreens", rename |-> "",
       transform |-> FALSE]>>

\* A copy plugin that keeps the PWA assets for web alone
copyPluginPwaForWebOnly(isDev, buildTarget, env) ==
    IF buildTarget = "web" THEN PwaAssets ELSE OpenfinAssets

\* copyPlugin: the targets it gives viteStaticCopy
copyPlugin(isDev, buildTarget, env) ==
    IF buildTarget = "openfin" THEN OpenfinAssets ELSE PwaAssets

\* A manifest link for every target but openfin
ManifestUnlessOpenfin(isDev, buildTarget, env) ==
    IF buildTarget # "openfin"
    THEN "<link rel=\"manifest\" href=\"" \o getBaseUrl(isDev) \o "/manifest.json\" />"
    ELSE "<!-- no manifest.json for OpenFin -->"

\* injectScriptIntoHtml: the first element of injectScript
ManifestElement(isDev, buildTarget, env) ==
    IF buildTarget = "web"
    THEN "<link rel=\"manifest\" href=\"" \o getBaseUrl(isDev) \o "/manifest.json\" />"
    ELSE "<!-- no manifest.json for OpenFin -->"

\* injectScriptIntoHtml: the data injected into the page
injectScriptIntoHtml(isDev, buildTarget, env) ==
    ManifestElement(isDev, buildTarget, env)
    \o "<script>window.supportsBigInt = typeof BigInt !== 'undefined';"
    \o "window.BigInt = supportsBigInt ? BigInt : function(){};</script>"
    \o "<script async src=\"https://www.googletagmanager.com/gtag/js?id="
    \o (IF env = "prod" THEN "G-Z3PC9MRCH9" ELSE "G-Y28QSEPEC8")
    \o "\"></script>"

\* devPlugins, in the order setConfig pushes them
devPlugins(isDev, buildTarget, env) ==
    <<"targetBuildPlugin", "indexSwitchPlugin">>
    \o (IF Truthy(env.VITE_MOCKS) THEN <<"apiMockReplacerPlugin">> ELSE <<>>)
    \o <<"react">>
    \o (IF ~isDev THEN <<"splitVendorChunkPlugin", "customPreloadPlugin">> ELSE <<>>)
    \o (IF buildTarget = "web" THEN <<"injectWebServiceWorkerPlugin">> ELSE <<>>)
    \o <<"copyPlugin", "injectScriptIntoHtml">>

\* plugins: devPlugins unless STORYBOOK === "true", then fontFacePreload
Plugins(isDev, buildTarget, env) ==
    (IF env.STORYBOOK = Str("true") THEN <<>> ELSE devPlugins(isDev, buildTarget, env))
    \o <<"fontFacePreload">>

NoProxy == [defined |-> FALSE, entries |-> {}]

DefaultGateway == "wss://trading-web-gateway-rt-dev.demo.hydra.weareadaptive.com"

\* A proxy that VITE_MOCKS does not switch off
ProxyAlways(env) ==
    [defined |-> TRUE,
     entries |-> {[path |-> "/ws", target |-> OrElse(env.VITE_HYDRA_URL, DefaultGateway),
                   changeOrigin |-> TRUE, ws |-> TRUE]}]

\* proxy: undefined under VITE_MOCKS, else the "/ws" entry
Proxy(env) ==
    IF Truthy(env.VITE_MOCKS) THEN NoProxy
    ELSE [defined |-> TRUE,
          entries |-> {[path |-> "/ws",
                        target |-> OrElse(env.VITE_HYDRA_URL, DefaultGateway),
                        changeOrigin |-> TRUE, ws |-> TRUE]}]

NoConfig == [made |-> FALSE]

IdleConfig ==
    /\ processEnv = [TARGET |-> Unset, VITE_MOCKS |-> Unset, VITE_HYDRA_URL |-> Unset,
                     STORYBOOK |-> Unset, ENVIRONMENT |-> Unset]
    /\ mode = "development"
    /\ config = NoConfig

InitConfig ==
    /\ processEnv \in [TARGET : TargetValues, VITE_MOCKS : MocksValues,
                       VITE_HYDRA_URL : HydraValues, STORYBOOK : StorybookValues,
                       ENVIRONMENT : EnvironmentValues]
    /\ mode \in Modes
    /\ config = NoConfig

setConfig ==
    /\ config = NoConfig
    /\ LET env == OrElse(processEnv.ENVIRONMENT, "local")
           buildTarget == BuildTarget(processEnv)
           isDev == mode = "development"
           viteBaseUrl == IF isDev THEN "/" ELSE getBaseUrl(FALSE)
       IN  config' = [made |-> TRUE,
                      base |-> viteBaseUrl,
                      buildTarget |-> buildTarget,
                      isDev |-> isDev,
                      plugins |-> Plugins(isDev, buildTarget, processEnv),
                      copyTargets |-> copyPlugin(isDev, buildTarget, processEnv),
                      injectScript |-> injectScriptIntoHtml(isDev, buildTarget, env),
                      proxy |-> Proxy(processEnv)]
    /\ UNCHANGED <<processEnv, mode>>

----------------------------------------------------------------------------
(* The credit RFQ flow the end-to-end test drives.  The pages' choice and  *)
(* the test's reading of the identifier are the test's code; the RFQ       *)
(* service and the views' handling of its pushes are modelled on the       *)
(* specification's description of the flow.                                *)

\* How many RFQs are sent in one run.
MaxRfqs == 1

Dealers == {"Adaptive Bank", "Other Bank"}

OPENFIN_PROJECT_NAME == "openfin"
Projects == {OPENFIN_PROJECT_NAME, "chrome"}

\* The pages the test drives: three windows under OpenFin, else one page
NewRfqPage(proj) == IF proj = OPENFIN_PROJECT_NAME THEN "credit-new-rfq" ELSE "page"
RfqsPage(proj) == IF proj = OPENFIN_PROJECT_NAME THEN "credit-rfqs" ELSE "page"
RfqBlotterPage(proj) == IF proj = OPENFIN_PROJECT_NAME THEN "credit-blotter" ELSE "page"

AllPages == {"credit-new-rfq", "credit-rfqs", "credit-blotter", "page"}
\* The pages that hold a subscription to the service's streams
Subscribers(proj) == {RfqsPage(proj), RfqBlotterPage(proj)}

DigitChars == "0123456789"

\* A natural number in decimal
RECURSIVE NumberToString(_)
NumberToString(n) ==
    IF n < 10 THEN CharAt(DigitChars, n + 1)
    ELSE NumberToString(n \div 10) \o CharAt(DigitChars, (n % 10) + 1)

\* The label of an accepted RFQ's view-trade control
ViewTradeLabel(tradeId) == "View Trade " \o NumberToString(tradeId)

\* btnTxt.split(" ")[1]
TradeIdSecondWord(btnTxt) ==
    LET parts == Split(btnTxt, " ") IN IF Len(parts) >= 2 THEN parts[2] ELSE UNDEFINED

\* btnTxt.split(" ")[2]
TradeIdOf(btnTxt) ==
    LET parts == Split(btnTxt, " ") IN IF Len(parts) >= 3 THEN parts[3] ELSE UNDEFINED

RfqIds == 1..MaxRfqs

NoTile == [state |-> "none", quotes |-> {}, viewTrade |-> ""]
EmptyView == [tiles |-> [r \in RfqIds |-> NoTile], rows |-> {}]

IdleRfq ==
    /\ project = "chrome"
    /\ rfqs = <<>>
    /\ inFlight = [p \in AllPages |-> <<>>]
    /\ views = [p \in AllPages |-> EmptyView]
    /\ testPc = "acting"
    /\ testVals = [btnTxt |-> "", tradeId |-> "", blotterId |-> ""]

InitRfq ==
    /\ project \in Projects
    /\ rfqs = <<>>
    /\ inFlight = [p \in AllPages |-> <<>>]
    /\ views = [p \in AllPages |-> EmptyView]
    /\ testPc = "acting"
    /\ testVals = [btnTxt |-> "", tradeId |-> "", blotterId |-> ""]

\* The service pushes msgs, in order, to every subscribed page
Push(msgs) ==
    inFlight' = [p \in AllPages |->
                   IF p \in Subscribers(project) THEN inFlight[p] \o msgs ELSE inFlight[p]]

\* New RFQ view: the Send RFQ button
SendRfq ==
    /\ Len(rfqs) < MaxRfqs
    /\ rfqs' = Append(rfqs, [state |-> "open", quotes |-> {}, tradeId |-> 0])
    /\ Push(<<[kind |-> "created", rfq |-> Len(rfqs) + 1, dealer |-> "", tradeId |-> 0]>>)
    /\ UNCHANGED <<project, views, testPc, testVals>>

\* A dealer answers an open RFQ
DealerQuotes(r, d) ==
    /\ r \in 1..Len(rfqs)
    /\ rfqs[r].state = "open"
    /\ d \notin rfqs[r].quotes
    /\ rfqs' = [rfqs EXCEPT ![r].quotes = @ \cup {d}]
    /\ Push(<<[kind |-> "quote", rfq |-> r, dealer |-> d, tradeId |-> 0]>>)
    /\ UNCHANGED <<project, views, testPc, testVals>>

TradesSoFar == Cardinality({r \in 1..Len(rfqs) : rfqs[r].state = "closed"})

\* RFQs view: the Accept button of a quote the view shows; the service
\* closes the RFQ, books the trade and pushes both
AcceptQuote(r, d) ==
    /\ r \in 1..Len(rfqs)
    /\ views[RfqsPage(project)].tiles[r].state = "open"
    /\ d \in views[RfqsPage(project)].tiles[r].quotes
    /\ rfqs[r].state = "open"
    /\ LET id == TradesSoFar + 1
       IN  /\ rfqs' = [rfqs EXCEPT ![r].state = "closed", ![r].tradeId = id]
           /\ Push(<<[kind |-> "accepted", rfq |-> r, dealer |-> d, tradeId |-> id],
                     [kind |-> "trade", rfq |-> r, dealer |-> d, tradeId |-> id]>>)
    /\ UNCHANGED <<project, views, testPc, testVals>>

\* What a page shows after msg
Receive(view, msg) ==
    CASE msg.kind = "created" ->
           [view EXCEPT !.tiles[msg.rfq] = [NoTile EXCEPT !.state = "open"]]
      [] msg.kind = "quote" ->
           [view EXCEPT !.tiles[msg.rfq].quotes = @ \cup {msg.dealer}]
      [] msg.kind = "accepted" ->
           [view EXCEPT !.tiles[msg.rfq].state = "closed",
                        !.tiles[msg.rfq].viewTrade = ViewTradeLabel(msg.tradeId)]
      [] msg.kind = "trade" ->
           [view EXCEPT !.rows = @ \cup {NumberToString(msg.tradeId)}]

\* Page p handles the next push it has received
Deliver(p) ==
    /\ inFlight[p] # <<>>
    /\ views' = [views EXCEPT ![p] = Receive(@, Head(inFlight[p]))]
    /\ inFlight' = [inFlight EXCEPT ![p] = Tail(@)]
    /\ UNCHANGED <<project, rfqs, testPc, testVals>>

ViewTradeControls(view) == {r \in RfqIds : view.tiles[r].viewTrade # ""}

\* The test reads the first view-trade control and takes the identifier from it
ReadViewTrade ==
    /\ testPc = "acting"
    /\ ViewTradeControls(views[RfqsPage(project)]) # {}
    /\ LET r == Min(ViewTradeControls(views[RfqsPage(project)]))
           btnTxt == views[RfqsPage(project)].tiles[r].viewTrade
       IN  testVals' = [btnTxt |-> btnTxt, tradeId |-> TradeIdOf(btnTxt), blotterId |-> ""]
    /\ testPc' = "read"
    /\ UNCHANGED <<project, rfqs, inFlight, views>>

\* getByText(tradeId, { exact: true }).first().innerText() on the blotter page
FindInBlotter ==
    /\ testPc = "read"
    /\ testVals.tradeId \in views[RfqBlotterPage(project)].rows
    /\ testVals' = [testVals EXCEPT !.blotterId =
                       CHOOSE row \in views[RfqBlotterPage(project)].rows :
                           row = testVals.tradeId]
    /\ testPc' = "done"
    /\ UNCHANGED <<project, rfqs, inFlight, views>>

----------------------------------------------------------------------------
(* The specifications: one per part, the other parts idle.                 *)

WindowInit == InitWindow /\ IdleTrades /\ IdleConfig /\ IdleResolve /\ IdleRfq

NextWindow ==
    \/ close /\ UNCHANGED <<tradesVars, configVars, resolveVars, rfqVars>>
    \/ minimize /\ UNCHANGED <<tradesVars, configVars, resolveVars, rfqVars>>
    \/ maximize /\ UNCHANGED <<tradesVars, configVars, resolveVars, rfqVars>>
    \/ \E i \in 1..Len(handlers) :
         GetStateSettles(i) /\ UNCHANGED <<tradesVars, configVars, resolveVars, rfqVars>>
    \/ \E i \in 1..Len(handlers) :
         MaximizeThen(i) /\ UNCHANGED <<tradesVars, configVars, resolveVars, rfqVars>>

SpecWindow == WindowInit /\ [][NextWindow]_vars

TradeValues == [tradeId : 1..MaxTrades, symbol : Symbols, status : Statuses]

TradesInit == InitTrades /\ IdleWindow /\ IdleConfig /\ IdleResolve /\ IdleRfq

NextTrades ==
    \/ \E trade \in TradeValues :
         TradeEmitted(trade) /\ UNCHANGED <<windowVars, configVars, resolveVars, rfqVars>>
    \/ Fdc3Ready /\ UNCHANGED <<windowVars, configVars, resolveVars, rfqVars>>
    \/ \E trade \in rows :
         RowClick(trade) /\ UNCHANGED <<windowVars, configVars, resolveVars, rfqVars>>

SpecTrades == TradesInit /\ [][NextTrades]_vars

ConfigInit == InitConfig /\ IdleWindow /\ IdleTrades /\ IdleResolve /\ IdleRfq

NextConfig == setConfig /\ UNCHANGED <<windowVars, tradesVars, resolveVars, rfqVars>>

SpecConfig == ConfigInit /\ [][NextConfig]_vars

ResolveInit == InitResolve /\ IdleWindow /\ IdleTrades /\ IdleConfig /\ IdleRfq

NextResolve ==
    \/ TargetBuildResolveId /\ UNCHANGED <<windowVars, tradesVars, configVars, rfqVars>>
    \/ IndexSwitchResolveId /\ UNCHANGED <<windowVars, tradesVars, configVars, rfqVars>>

SpecResolve == ResolveInit /\ [][NextResolve]_vars

RfqInit == InitRfq /\ IdleWindow /\ IdleTrades /\ IdleConfig /\ IdleResolve

NextRfq ==
    \/ SendRfq /\ UNCHANGED <<windowVars, tradesVars, configVars, resolveVars>>
    \/ \E r \in RfqIds, d \in Dealers :
         DealerQuotes(r, d) /\ UNCHANGED <<windowVars, tradesVars, configVars, resolveVars>>
    \/ \E r \in RfqIds, d \in Dealers :
         AcceptQuote(r, d) /\ UNCHANGED <<windowVars, tradesVars, configVars, resolveVars>>
    \/ \E p \in AllPages :
         Deliver(p) /\ UNCHANGED <<windowVars, tradesVars, configVars, resolveVars>>
    \/ ReadViewTrade /\ UNCHANGED <<windowVars, tradesVars, configVars, resolveVars>>
    \/ FindInBlotter /\ UNCHANGED <<windowVars, tradesVars, configVars, resolveVars>>

OtherParts == <<windowVars, tradesVars, configVars, resolveVars>>

\* The event loop of a page handles every push the page has received: the
\* views the test reads are not starved of their deliveries.
SpecRfq ==
    /\ RfqInit
    /\ [][NextRfq]_vars
    /\ WF_vars(Deliver(RfqsPage(project)) /\ UNCHANGED OtherParts)
    /\ WF_vars(Deliver(RfqBlotterPage(project)) /\ UNCHANGED OtherParts)

----------------------------------------------------------------------------
(* The claims.                                                             *)

RECURSIVE SentBy(_)
SentBy(cs) == IF cs = <<>> THEN <<>> ELSE Head(cs).sent \o SentBy(Tail(cs))

\* C1: a row click with window.fdc3 present issues exactly one broadcast, of
\* type "fdc3.instrument" and with id.ticker the clicked trade's symbol; a
\* row click with window.fdc3 absent issues no broadcast and raises no error.
C1_RowClickBroadcasts ==
    /\ \A i \in 1..Len(clicks) :
         LET c == clicks[i]
         IN  /\ ~c.error
             /\ c.present => /\ Len(c.sent) = 1
                             /\ c.sent[1].type = "fdc3.instrument"
                             /\ c.sent[1].id.ticker = c.trade.symbol
             /\ ~c.present => c.sent = <<>>
    /\ broadcasts = SentBy(clicks)

C1_Witness ==
    /\ \E i \in 1..Len(clicks) : clicks[i].present /\ Len(broadcasts) = 1
    /\ \E i \in 1..Len(clicks) : ~clicks[i].present

RECURSIVE IssuedBy(_)
IssuedBy(hs) == IF hs = <<>> THEN 0 ELSE Len(Head(hs).issued) + IssuedBy(Tail(hs))

C2_HandlersDelegate ==
    /\ \A i \in 1..Len(handlers) :
         LET h == handlers[i]
         IN  /\ h.control = "close" => h.issued = <<"close">>
             /\ h.control = "minimize" => h.issued = <<"minimize">>
             /\ h.control = "maximize" /\ h.pc # "done" => h.issued = <<"getState">>
             /\ h.control = "maximize" /\ h.pc = "done" =>
                  h.issued = <<"getState",
                               IF h.seen = "maximized" THEN "restore" ELSE "maximize">>
    /\ Len(apiCalls) = IssuedBy(handlers)

C2_StateChangesByCall ==
    winState' # winState =>
        /\ Len(apiCalls') = Len(apiCalls) + 1
        /\ apiCalls'[Len(apiCalls')] \in {"close", "minimize", "maximize", "restore"}

\* C2: every window control is delegated to the container's window API:
\* close issues exactly one close call, minimize exactly one minimize call,
\* maximize queries the state and then issues restore when the answer is
\* "maximized" and maximize for every other answer; and the window's state
\* changes only in a step that issues one of these calls.
C2_ControlsDelegated == [](C2_HandlersDelegate) /\ [][C2_StateChangesByCall]_vars

C2_Witness ==
    /\ \E i \in 1..Len(handlers) :
         /\ handlers[i].control = "maximize" /\ handlers[i].pc = "done"
         /\ handlers[i].seen = "minimized"
    /\ \E i \in 1..Len(handlers) :
         /\ handlers[i].control = "maximize" /\ handlers[i].pc = "done"
         /\ handlers[i].seen = "maximized"

Accepted(r) == r <= Len(rfqs) /\ rfqs[r].state = "closed"

BlotterShowsTradeOf(r) ==
    LET label == views[RfqsPage(project)].tiles[r].viewTrade
    IN  /\ label # ""
        /\ \E row \in views[RfqBlotterPage(project)].rows : row = TradeIdOf(label)

NamesTsFile(source) == EndsWith(source, ".ts") \/ EndsWith(source, ".tsx")

\* The variant of a .ts/.tsx source: <dir>/<name>.<target>.<ext>
VariantOf(source, tgt) ==
    PathParse(source).dir \o "/" \o PathParse(source).name \o "." \o tgt
        \o PathParse(source).ext

\* Where a source's directory is on disk: under the working directory for a
\* root-relative source, beside the importer for a relative one.
VariantOnDisk(source, importer, tgt) ==
    IF IsAbsolute(source) THEN PathNormalize(Cwd \o VariantOf(source, tgt))
    ELSE PathJoin(<<IF Truthy(importer) THEN PathParse(importer.val).dir ELSE Cwd,
                    VariantOf(source, tgt)>>)

\* C4: in development mode targetBuildPlugin resolves every .ts/.tsx source,
\* whatever the form of its path, to <dir>/<name>.<target>.<ext> when that
\* file exists, and to null when it does not or the source is no .ts/.tsx.
C4_DevReplacesWithVariant ==
    (dev /\ resolved.plugin = "targetBuildPlugin") =>
        resolved.result =
            IF /\ NamesTsFile(resolved.source)
               /\ VariantOnDisk(resolved.source, resolved.importer, target) \in files
            THEN Id(VariantOf(resolved.source, target))
            ELSE Null

CopiedSources(cfg) == {cfg.copyTargets[i].src : i \in 1..Len(cfg.copyTargets)}

C6_ProxyToGateway ==
    config.made =>
        IF processEnv.VITE_MOCKS.set /\ processEnv.VITE_MOCKS.val # ""
        THEN ~config.proxy.defined /\ config.proxy.entries = {}
        ELSE /\ config.proxy.defined
             /\ Cardinality(config.proxy.entries) = 1
             /\ \A e \in config.proxy.entries :
                  /\ e.path = "/ws"
                  /\ e.ws
                  /\ e.target =
                       IF processEnv.VITE_HYDRA_URL.set /\ processEnv.VITE_HYDRA_URL.val # ""
                       THEN processEnv.VITE_HYDRA_URL.val
                       ELSE "wss://trading-web-gateway-rt-dev.demo.hydra.weareadaptive.com"

C6_Witness ==
    /\ config.made
    /\ processEnv.VITE_MOCKS = Unset
    /\ \E e \in config.proxy.entries : e.target = "ws://localhost:55000" /\ e.ws

BuildGuard(source, importer) ==
    \/ ~Truthy(importer)
    \/ ~Includes(ReplaceAll(importer.val, "\\", "/"), "client/src/")
    \/ source = "./main"

\* C7: in build mode targetBuildPlugin returns null without touching the
\* file system when there is no importer, when the importer's path does not
\* contain "client/src/" or when the source is "./main"; otherwise it
\* returns <path>/<name>.<lowercased target>.ts when that exists, else the
\* same with .tsx when that exists, else null.
C7_BuildTriesTsThenTsx ==
    (~dev /\ resolved.plugin = "targetBuildPlugin") =>
        IF BuildGuard(resolved.source, resolved.importer)
        THEN resolved.result = Null /\ resolved.fsCalls = <<>>
        ELSE LET path == CandidatePath(resolved.source, resolved.importer, target)
                 stem == "/" \o PathParse(resolved.source).name \o "." \o ToLowerCase(target)
             IN  /\ EndsWith(path, stem)
                 /\ resolved.result =
                      IF PathResolve(path \o ".ts") \in OnDisk(files)
                      THEN Id(path \o ".ts")
                      ELSE IF PathResolve(path \o ".tsx") \in OnDisk(files)
                      THEN Id(path \o ".tsx")
                      ELSE Null

C7_Witness ==
    /\ ~dev /\ resolved.plugin = "targetBuildPlugin"
    /\ {"/client/src/a/x.web.ts", "/client/src/a/x.web.tsx"} \subseteq files
    /\ resolved.result = Id("/client/src/a/x.web.ts")

\* C8: indexSwitchPlugin returns <importer dir>/<source dir>/<name>.<lowercased
\* target>.ts for a source that starts with "./main" and has an importer
\* when that file exists, and null when it does not; null for every other
\* source and without an importer; it never throws.
C8_IndexSwitchesEntry ==
    resolved.plugin = "indexSwitchPlugin" =>
        /\ resolved.result # Throws
        /\ IF StartsWith(resolved.source, "./main") /\ Truthy(resolved.importer)
           THEN LET entry == PathJoin(<<PathParse(resolved.importer.val).dir,
                                        PathParse(resolved.source).dir,
                                        PathParse(resolved.source).name \o "."
                                            \o ToLowerCase(target) \o ".ts">>)
                IN  resolved.result =
                      IF PathResolve(entry) \in OnDisk(files) THEN Id(entry) ELSE Null
           ELSE resolved.result = Null

C8_Witness ==
    /\ resolved.plugin = "indexSwitchPlugin"
    /\ resolved.source = "./main"
    /\ target = "OpenFin"
    /\ resolved.result = Id("/client/src/main.openfin.ts")

\* C9: when the maximize control has been activated twice and nothing else,
\* and both handlers have completed, the window is maximized exactly if it
\* was before the first activation.
C9_MaximizeTwiceRestores ==
    (/\ Len(handlers) = 2
     /\ \A i \in 1..2 : handlers[i].control = "maximize" /\ handlers[i].pc = "done")
    => ((winState = "maximized") <=> (win0 = "maximized"))

StorybookOn == processEnv.STORYBOOK.set /\ processEnv.STORYBOOK.val = "true"
InList(name, list) == \E i \in 1..Len(list) : list[i] = name

\* C10: when STORYBOOK is not "true" the service-worker plugin is in the
\* plugin list exactly for target web, and the injected HTML holds the
\* manifest link exactly for target web and the no-manifest comment
\* otherwise; when STORYBOOK is "true" the list is the font plugin alone.
C10_WebOnlyFeatures ==
    config.made =>
        IF StorybookOn THEN config.plugins = <<"fontFacePreload">>
        ELSE /\ InList("injectWebServiceWorkerPlugin", config.plugins)
                  <=> (config.buildTarget = "web")
             /\ InList("injectScriptIntoHtml", config.plugins)
             /\ Includes(config.injectScript, "<link rel=\"manifest\"")
                  <=> (config.buildTarget = "web")
             /\ (config.buildTarget # "web")
                  <=> Includes(config.injectScript, "<!-- no manifest.json")

C10_Witness ==
    /\ config.made /\ ~StorybookOn
    /\ config.buildTarget = "finsemble"
    /\ ~InList("injectWebServiceWorkerPlugin", config.plugins)
    /\ Includes(config.injectScript, "<!-- no manifest.json for OpenFin -->")

====
